---- MODULE Spec2Model ----
(***************************************************************************)
(* The serialization engine of javascript/packages/fury/lib/fury.ts: one   *)
(* engine owning one BinaryWriter, one BinaryReader, one ReferenceResolver *)
(* and one ClassResolver, driven by serialize, serializeVolatile,          *)
(* deserialize and the disposer returned by serializeVolatile.             *)
(*                                                                         *)
(* fury.ts is modelled from its code.  The writer, the reader, the two     *)
(* resolvers, the flag values and the codecs live in files that fury.ts    *)
(* imports; they are modelled from their contracts in the specification.   *)
(***************************************************************************)
EXTENDS Integers, Sequences, FiniteSets, TLC

VARIABLES
    config,             \* this.config (fixed at construction)
    binaryWriter,       \* this.binaryWriter: [buf, cursor, reserved, locked]
    binaryReader,       \* this.binaryReader: [bytes, cursor]
    referenceResolver,  \* this.referenceResolver: objects registered in this pass
    classResolver,      \* this.classResolver: [transient: type ids looked up in this pass]
    closures,           \* caller side: the serializers of the closures that registerSerializer returned
    views,              \* caller side: lengths of the volatile views returned and not disposed
    holders,            \* caller side: for each view, the closure it was obtained through (0: the engine's own method)
    dumped,             \* caller side: the value last returned by serialize
    origin,             \* caller side: the call that produced `dumped`
    last                \* caller side: the outcome of the last call

vars == << config, binaryWriter, binaryReader, referenceResolver, classResolver,
           closures, views, holders, dumped, origin, last >>

----------------------------------------------------------------------------
(* Bounds of the model. *)

\* values passed to serialize are the null sentinel and 1..MaxValue
MaxValue == 2
\* crafted inputs of deserialize carry language tags 0..MaxLang
MaxLang == 1
\* registerSerializer is called at most MaxRegistrations times
MaxRegistrations == 2

----------------------------------------------------------------------------
(* Values, flags and byte helpers. *)

\* the null sentinel (`data === null`)
NULL == 0

Values == {NULL} \cup (1..MaxValue)

\* ConfigFlags, bit 0 .. bit 3 of the bitmap byte
isNullFlag == 1
isLittleEndianFlag == 2
isCrossLanguageFlag == 4
isOutOfBandFlag == 8

\* Language.XLANG
XLANG == 0

RECURSIVE BitAnd(_, _)
BitAnd(a, b) ==
    IF a = 0 \/ b = 0 THEN 0
    ELSE (a % 2) * (b % 2) + 2 * BitAnd(a \div 2, b \div 2)

BitOr(a, b) == a + b - BitAnd(a, b)

Max(a, b) == IF a >= b THEN a ELSE b

\* a 32-bit unsigned integer as 4 little-endian bytes
LE32(n) ==
    << n % 256, (n \div 256) % 256, (n \div 65536) % 256, (n \div 16777216) % 256 >>

\* the 32-bit unsigned integer held by 4 little-endian bytes
FromLE32(bs) == bs[1] + 256 * bs[2] + 65536 * bs[3] + 16777216 * bs[4]

\* storage `buf` with the bytes `bs` stored from 0-based position `pos` on
\* (fresh storage is zero-filled)
PutBytes(buf, pos, bs) ==
    [i \in 1..Max(Len(buf), pos + Len(bs)) |->
        IF i > pos /\ i <= pos + Len(bs) THEN bs[i - pos]
        ELSE IF i <= Len(buf) THEN buf[i]
        ELSE 0]

----------------------------------------------------------------------------
(* BinaryWriter: a growable buffer with a cursor and a pending-release     *)
(* marker (`locked`).                                                      *)

NewWriter == [buf |-> << >>, cursor |-> 0, reserved |-> 0, locked |-> FALSE]

\* reset() fails (OwnershipError) when the marker is present
writerResetFails(w) == w.locked

writerReset(w) == [w EXCEPT !.cursor = 0]

writerUint8(w, v) ==
    [w EXCEPT !.buf = PutBytes(w.buf, w.cursor, << v % 256 >>),
              !.cursor = w.cursor + 1]

writerUint32(w, v) ==
    [w EXCEPT !.buf = PutBytes(w.buf, w.cursor, LE32(v)),
              !.cursor = w.cursor + 4]

\* skip(n) advances the cursor and leaves the gap as it is in the storage
writerSkip(w, n) ==
    [w EXCEPT !.buf = PutBytes(w.buf, w.cursor + n, << >>),
              !.cursor = w.cursor + n]

\* reserve(n) grows the capacity and leaves cursor and contents alone
writerReserve(w, n) ==
    [w EXCEPT !.reserved = Max(w.reserved, w.cursor + n)]

getCursor(w) == w.cursor

setUint32Position(w, pos, v) ==
    [w EXCEPT !.buf = PutBytes(w.buf, pos, LE32(v))]

\* dump(): an independent copy of the bytes written
dump(w) ==
    [writer |-> w,
     result |-> [kind |-> "copy", bytes |-> SubSeq(w.buf, 1, w.cursor),
                 len |-> w.cursor]]

\* dumpAndOwn(): a view over the live storage, and the marker installed
dumpAndOwn(w) ==
    [writer |-> [w EXCEPT !.locked = TRUE],
     result |-> [kind |-> "view", bytes |-> << >>, len |-> w.cursor]]

\* the disposer returned with a view clears the marker
dispose(w) == [w EXCEPT !.locked = FALSE]

\* the bytes a caller sees through a returned value, given the writer's storage
Seen(result, buf) ==
    IF result.kind = "view" THEN SubSeq(buf, 1, result.len) ELSE result.bytes

----------------------------------------------------------------------------
(* BinaryReader: the input bytes and a cursor. *)

NewReader == [bytes |-> << >>, cursor |-> 0]

readerReset(bytes) == [bytes |-> bytes, cursor |-> 0]

readerHas(r, n) == r.cursor + n <= Len(r.bytes)

readerUint8(r) ==
    [reader |-> [r EXCEPT !.cursor = r.cursor + 1],
     value |-> r.bytes[r.cursor + 1]]

readerInt32(r) ==
    [reader |-> [r EXCEPT !.cursor = r.cursor + 4],
     value |-> FromLE32(SubSeq(r.bytes, r.cursor + 1, r.cursor + 4))]

----------------------------------------------------------------------------
(* ReferenceResolver and ClassResolver: per-call state, emptied by reset(). *)

NewReferenceResolver == << >>

referenceResolverReset(refs) == << >>

NewClassResolver == [transient |-> {}, table |-> << >>]

classResolverReset(cls) == [cls EXCEPT !.transient = {}]

----------------------------------------------------------------------------
(* Serializers (codecs): a fixed-size hint, write(value) on the shared      *)
(* writer and read() on the shared reader.  Every codec starts a value with *)
(* a reference flag byte.                                                  *)

\* reference flags, as bytes: null, a value without tracking, a tracked value
NullRefFlag == 253
NotNullValueFlag == 255
RefValueFlag == 0

\* the type id the Any-Serializer writes before a number
NumberTypeId == 3

\* the Any-Serializer: flag, type id, value
anySerializer == [name |-> "any", meta |-> [fixedSize |-> 11]]
\* a registered codec: flag, value; its type excludes the value 1, which it
\* fails to encode or decode (after the flag byte)
typedSerializer == [name |-> "typed", meta |-> [fixedSize |-> 2]]

Serializers == {anySerializer, typedSerializer}

\* whether the codec's write routine encodes `data` (does not fail)
Encodable(serializer, data) == ~(serializer.name = "typed" /\ data = 1)

valueFlag == IF config.refTracking THEN RefValueFlag ELSE NotNullValueFlag

\* the reference flag of a back-reference: the index of an object already
\* seen in this pass follows it
RefFlag == 254

\* Object values are instances; an instance is named by a number outside the
\* range of the primitive values, and its fields hold instances.
LeafObject == 20          \* an object without fields
TwinObject == 21          \* another instance, equal to LeafObject field by field
SharedFields == 22        \* two fields holding the same instance
DistinctFields == 23      \* two fields holding two equal instances
SelfReferential == 24     \* the first field holds the object itself

fieldsOf(o) ==
    CASE o = SharedFields -> << LeafObject, LeafObject >>
      [] o = DistinctFields -> << LeafObject, TwinObject >>
      [] o = SelfReferential -> << SelfReferential, LeafObject >>
      [] OTHER -> << >>

GraphValues == {LeafObject, SharedFields, DistinctFields, SelfReferential}

\* a registered codec of an object type: flag, number of fields, the fields
objectSerializer == [name |-> "object", meta |-> [fixedSize |-> 2]]

\* the Reference Resolver's index (from 0) of an instance seen in this pass
indexOf(refs, o) ==
    (CHOOSE i \in 1..Len(refs) :
        refs[i] = o /\ \A j \in 1..(i - 1) : refs[j] # o) - 1

\* the object codec writing instance o; st is the writer and the Reference
\* Resolver's table.  With tracking, an instance seen in this pass is written
\* as a back-reference, and a new one is given the next index before its
\* fields are written.
RECURSIVE writeObject(_, _), writeFields(_, _, _)
writeObject(o, st) ==
    IF config.refTracking /\ \E i \in 1..Len(st.refs) : st.refs[i] = o
    THEN [st EXCEPT !.writer =
             writerUint8(writerUint8(st.writer, RefFlag), indexOf(st.refs, o))]
    ELSE writeFields(fieldsOf(o), 1,
             [writer |-> writerUint8(writerUint8(st.writer, valueFlag),
                                     Len(fieldsOf(o))),
              refs |-> IF config.refTracking THEN Append(st.refs, o) ELSE st.refs])

writeFields(fields, i, st) ==
    IF i > Len(fields) THEN st
    ELSE writeFields(fields, i + 1, writeObject(fields[i], st))

\* what a back-reference resolves to when its index was assigned before the
\* current pass: an instance of an earlier call
Stale == 0 - 1

\* the object codec reading an instance.  The decoded instances are numbered
\* from 0 in the order they are created; st.nodes[k + 1] is the field list of
\* instance k, st.ref the instance the last read resolved to.  `base` is the
\* length of the Reference Resolver's table when the codec was entered.  With
\* tracking, a new instance is registered before its fields are decoded.
RECURSIVE readObject(_, _), readFields(_, _, _, _)
readObject(st, base) ==
    IF st.status # "ok" \/ ~readerHas(st.reader, 2)
    THEN [st EXCEPT !.status = "codec"]
    ELSE LET f == readerUint8(st.reader)
             n == readerUint8(f.reader)
             k == Len(st.nodes)
         IN  IF f.value = RefFlag
             THEN IF n.value >= Len(st.refs)
                  THEN [st EXCEPT !.status = "codec", !.reader = n.reader]
                  ELSE [st EXCEPT !.reader = n.reader,
                                  !.ref = IF n.value < base THEN Stale
                                          ELSE st.refs[n.value + 1]]
             ELSE IF f.value \in {RefValueFlag, NotNullValueFlag}
             THEN [readFields([st EXCEPT
                                  !.reader = n.reader,
                                  !.nodes = Append(st.nodes, << >>),
                                  !.refs = IF f.value = RefValueFlag
                                           THEN Append(st.refs, k) ELSE st.refs],
                              base, k, n.value)
                      EXCEPT !.ref = k]
             ELSE [st EXCEPT !.status = "codec", !.reader = f.reader]

readFields(st, base, k, n) ==
    IF n = 0 \/ st.status # "ok" THEN st
    ELSE LET c == readObject(st, base)
         IN  readFields([c EXCEPT !.nodes[k + 1] = Append(c.nodes[k + 1], c.ref)],
                        base, k, n - 1)

\* serializer.write(data) on writer w, resolvers refs and cls
serializerWrite(serializer, data, w, refs, cls) ==
    IF data = NULL
    THEN [status |-> "ok", writer |-> writerUint8(w, NullRefFlag),
          referenceResolver |-> refs, classResolver |-> cls]
    ELSE IF serializer.name = "object"
    THEN LET o == writeObject(data, [writer |-> w, refs |-> refs])
         IN  [status |-> "ok", writer |-> o.writer,
              referenceResolver |-> o.refs, classResolver |-> cls]
    ELSE LET w1 == writerUint8(w, valueFlag)
             refs1 == IF config.refTracking THEN Append(refs, data) ELSE refs
         IN  IF ~Encodable(serializer, data)
             THEN [status |-> "codec", writer |-> w1,
                   referenceResolver |-> refs1, classResolver |-> cls]
             ELSE IF serializer.name = "any"
             THEN [status |-> "ok",
                   writer |-> writerUint8(writerUint8(w1, NumberTypeId), data),
                   referenceResolver |-> refs1,
                   classResolver |->
                       [cls EXCEPT !.transient = cls.transient \cup {NumberTypeId}]]
             ELSE [status |-> "ok", writer |-> writerUint8(w1, data),
                   referenceResolver |-> refs1, classResolver |-> cls]

\* serializer.read() on reader r, resolvers refs and cls; input that the
\* codec cannot decode (a short or malformed payload) fails
serializerRead(serializer, r, refs, cls) ==
    LET fail(rd, rf, cl) ==
            [status |-> "codec", value |-> NULL, reader |-> rd,
             referenceResolver |-> rf, classResolver |-> cl]
    IN  IF ~readerHas(r, 1) THEN fail(r, refs, cls)
        ELSE LET f == readerUint8(r)
             IN  IF f.value = NullRefFlag
                 THEN [status |-> "ok", value |-> NULL, reader |-> f.reader,
                       referenceResolver |-> refs, classResolver |-> cls]
                 ELSE IF serializer.name = "object"
                 THEN LET o == readObject([status |-> "ok", reader |-> r,
                                           refs |-> refs, nodes |-> << >>,
                                           ref |-> 0], Len(refs))
                      IN  IF o.status # "ok" THEN fail(o.reader, o.refs, cls)
                          ELSE [status |-> "ok", value |-> o.nodes,
                                reader |-> o.reader,
                                referenceResolver |-> o.refs,
                                classResolver |-> cls]
                 ELSE IF f.value \notin {NotNullValueFlag, RefValueFlag}
                 THEN fail(f.reader, refs, cls)
                 ELSE IF serializer.name = "any"
                 THEN IF ~readerHas(f.reader, 2) THEN fail(f.reader, refs, cls)
                      ELSE LET t == readerUint8(f.reader)
                               v == readerUint8(t.reader)
                               cls1 == [cls EXCEPT
                                           !.transient = cls.transient \cup {t.value}]
                           IN  IF t.value # NumberTypeId \/ v.value = NULL
                               THEN fail(t.reader, refs, cls1)
                               ELSE [status |-> "ok", value |-> v.value,
                                     reader |-> v.reader,
                                     referenceResolver |->
                                         IF f.value = RefValueFlag
                                         THEN Append(refs, v.value) ELSE refs,
                                     classResolver |-> cls1]
                 ELSE IF ~readerHas(f.reader, 1) THEN fail(f.reader, refs, cls)
                      ELSE LET v == readerUint8(f.reader)
                           IN  IF v.value = NULL
                                  \/ ~Encodable(serializer, v.value)
                               THEN fail(v.reader, refs, cls)
                               ELSE [status |-> "ok", value |-> v.value,
                                     reader |-> v.reader,
                                     referenceResolver |->
                                         IF f.value = RefValueFlag
                                         THEN Append(refs, v.value) ELSE refs,
                                     classResolver |-> cls]

----------------------------------------------------------------------------
(* The engine: fury.ts. *)

\* the outcome of a write call that did not reach the extraction
Thrown(status, w, refs, cls) ==
    [status |-> status, writer |-> w, referenceResolver |-> refs,
     classResolver |-> cls, writeStart |-> 0,
     writeCalls |-> IF status = "codec" THEN 1 ELSE 0,
     codecRefs |-> << >>, codecCls |-> {},
     steps |-> << "binaryWriter.reset" >>,
     result |-> [kind |-> "none", bytes |-> << >>, len |-> 0]]

\* headerBitmap with the cross-language flag forgotten
headerBitmap_noCrossLanguage(data) ==
    LET bitmap0 == 0
        bitmap1 == IF data = NULL THEN BitOr(bitmap0, isNullFlag) ELSE bitmap0
    IN  BitOr(bitmap1, isLittleEndianFlag)

\* serializeInternal, the bitmap of the header
headerBitmap(data) ==
    LET bitmap0 == 0
        bitmap1 == IF data = NULL THEN BitOr(bitmap0, isNullFlag) ELSE bitmap0
        bitmap2 == BitOr(bitmap1, isLittleEndianFlag)
    IN  BitOr(bitmap2, isCrossLanguageFlag)

\* writeFrame without the patch of the placeholder
writeFrame_noPatch(w0, data, serializer) ==
    LET refs0 == referenceResolverReset(referenceResolver)
        cls0 == classResolverReset(classResolver)
        w1 == writerUint8(w0, headerBitmap(data))
        w2 == writerUint8(w1, XLANG)
        cursor == getCursor(w2)
        w3 == writerSkip(w2, 4)
        w4 == writerUint32(w3, 0)
        w5 == writerReserve(w4, serializer.meta.fixedSize)
        c == serializerWrite(serializer, data, w5, refs0, cls0)
        w6 == c.writer
    IN  IF c.status # "ok"
        THEN [Thrown("codec", c.writer, c.referenceResolver, c.classResolver)
                 EXCEPT !.writeStart = getCursor(w5),
                        !.codecRefs = refs0, !.codecCls = cls0.transient]
        ELSE [status |-> "ok",
              writer |-> w6,
              referenceResolver |-> c.referenceResolver,
              classResolver |-> c.classResolver,
              writeStart |-> getCursor(w5),
              writeCalls |-> 1,
              codecRefs |-> refs0,
              codecCls |-> cls0.transient,
              steps |-> << "binaryWriter.reset", "referenceResolver.reset",
                           "classResolver.reset", "uint8(bitmap)",
                           "uint8(language)", "getCursor", "skip(4)",
                           "uint32(0)", "reserve", "serializer.write",
                           "setUint32Position" >>,
              result |-> [kind |-> "none", bytes |-> << >>, len |-> 0]]

\* writeFrame without the reset of the Class Resolver
writeFrame_noClassReset(w0, data, serializer) ==
    LET refs0 == referenceResolverReset(referenceResolver)
        cls0 == classResolver
        w1 == writerUint8(w0, headerBitmap(data))
        w2 == writerUint8(w1, XLANG)
        cursor == getCursor(w2)
        w3 == writerSkip(w2, 4)
        w4 == writerUint32(w3, 0)
        w5 == writerReserve(w4, serializer.meta.fixedSize)
        c == serializerWrite(serializer, data, w5, refs0, cls0)
        w6 == setUint32Position(c.writer, cursor, getCursor(c.writer))
    IN  IF c.status # "ok"
        THEN [Thrown("codec", c.writer, c.referenceResolver, c.classResolver)
                 EXCEPT !.writeStart = getCursor(w5),
                        !.codecRefs = refs0, !.codecCls = cls0.transient]
        ELSE [status |-> "ok",
              writer |-> w6,
              referenceResolver |-> c.referenceResolver,
              classResolver |-> c.classResolver,
              writeStart |-> getCursor(w5),
              writeCalls |-> 1,
              codecRefs |-> refs0,
              codecCls |-> cls0.transient,
              steps |-> << "binaryWriter.reset", "referenceResolver.reset",
                           "classResolver.reset", "uint8(bitmap)",
                           "uint8(language)", "getCursor", "skip(4)",
                           "uint32(0)", "reserve", "serializer.write",
                           "setUint32Position" >>,
              result |-> [kind |-> "none", bytes |-> << >>, len |-> 0]]

\* writeFrame without the reset of the Reference Resolver
writeFrame_noReferenceReset(w0, data, serializer) ==
    LET refs0 == referenceResolver
        cls0 == classResolverReset(classResolver)
        w1 == writerUint8(w0, headerBitmap(data))
        w2 == writerUint8(w1, XLANG)
        cursor == getCursor(w2)
        w3 == writerSkip(w2, 4)
        w4 == writerUint32(w3, 0)
        w5 == writerReserve(w4, serializer.meta.fixedSize)
        c == serializerWrite(serializer, data, w5, refs0, cls0)
        w6 == setUint32Position(c.writer, cursor, getCursor(c.writer))
    IN  IF c.status # "ok"
        THEN [Thrown("codec", c.writer, c.referenceResolver, c.classResolver)
                 EXCEPT !.writeStart = getCursor(w5),
                        !.codecRefs = refs0, !.codecCls = cls0.transient]
        ELSE [status |-> "ok",
              writer |-> w6,
              referenceResolver |-> c.referenceResolver,
              classResolver |-> c.classResolver,
              writeStart |-> getCursor(w5),
              writeCalls |-> 1,
              codecRefs |-> refs0,
              codecCls |-> cls0.transient,
              steps |-> << "binaryWriter.reset", "referenceResolver.reset",
                           "classResolver.reset", "uint8(bitmap)",
                           "uint8(language)", "getCursor", "skip(4)",
                           "uint32(0)", "reserve", "serializer.write",
                           "setUint32Position" >>,
              result |-> [kind |-> "none", bytes |-> << >>, len |-> 0]]

\* writeFrame reserving the codec's fixed size before the header
writeFrame_reservesFirst(w0, data, serializer) ==
    LET refs0 == referenceResolverReset(referenceResolver)
        cls0 == classResolverReset(classResolver)
        w1 == writerUint8(writerReserve(w0, serializer.meta.fixedSize),
                          headerBitmap(data))
        w2 == writerUint8(w1, XLANG)
        cursor == getCursor(w2)
        w3 == writerSkip(w2, 4)
        w4 == writerUint32(w3, 0)
        w5 == w4
        c == serializerWrite(serializer, data, w5, refs0, cls0)
        w6 == setUint32Position(c.writer, cursor, getCursor(c.writer))
    IN  IF c.status # "ok"
        THEN [Thrown("codec", c.writer, c.referenceResolver, c.classResolver)
                 EXCEPT !.writeStart = getCursor(w5),
                        !.codecRefs = refs0, !.codecCls = cls0.transient]
        ELSE [status |-> "ok",
              writer |-> w6,
              referenceResolver |-> c.referenceResolver,
              classResolver |-> c.classResolver,
              writeStart |-> getCursor(w5),
              writeCalls |-> 1,
              codecRefs |-> refs0,
              codecCls |-> cls0.transient,
              steps |-> << "binaryWriter.reset", "referenceResolver.reset",
                           "classResolver.reset", "reserve", "uint8(bitmap)",
                           "uint8(language)", "getCursor", "skip(4)",
                           "uint32(0)", "serializer.write",
                           "setUint32Position" >>,
              result |-> [kind |-> "none", bytes |-> << >>, len |-> 0]]

\* serializeInternal after the writer's reset succeeded: resolver resets,
\* header, reservation, the codec's write, the patch of the placeholder
writeFrame(w0, data, serializer) ==
    LET refs0 == referenceResolverReset(referenceResolver)
        cls0 == classResolverReset(classResolver)
        w1 == writerUint8(w0, headerBitmap(data))
        w2 == writerUint8(w1, XLANG)
        cursor == getCursor(w2)
        w3 == writerSkip(w2, 4)
        w4 == writerUint32(w3, 0)
        w5 == writerReserve(w4, serializer.meta.fixedSize)
        c == serializerWrite(serializer, data, w5, refs0, cls0)
        w6 == setUint32Position(c.writer, cursor, getCursor(c.writer))
    IN  IF c.status # "ok"
        THEN [Thrown("codec", c.writer, c.referenceResolver, c.classResolver)
                 EXCEPT !.writeStart = getCursor(w5),
                        !.codecRefs = refs0, !.codecCls = cls0.transient]
        ELSE [status |-> "ok",
              writer |-> w6,
              referenceResolver |-> c.referenceResolver,
              classResolver |-> c.classResolver,
              writeStart |-> getCursor(w5),
              writeCalls |-> 1,
              codecRefs |-> refs0,
              codecCls |-> cls0.transient,
              steps |-> << "binaryWriter.reset", "referenceResolver.reset",
                           "classResolver.reset", "uint8(bitmap)",
                           "uint8(language)", "getCursor", "skip(4)",
                           "uint32(0)", "reserve", "serializer.write",
                           "setUint32Position" >>,
              result |-> [kind |-> "none", bytes |-> << >>, len |-> 0]]

\* serializeInternal with the writer's reset failure swallowed
serializeInternal_swallowsOwnership(data, serializer) ==
    writeFrame(writerReset(binaryWriter), data, serializer)

\* serializeInternal writing the frame before it attempts the writer's reset
serializeInternal_writesBeforeReset(data, serializer) ==
    LET s == writeFrame(writerReset(binaryWriter), data, serializer)
    IN  IF writerResetFails(binaryWriter)
        THEN Thrown("ownership", s.writer, s.referenceResolver, s.classResolver)
        ELSE s

\* serializeInternal resetting the resolvers before the writer
serializeInternal_resetsResolversFirst(data, serializer) ==
    IF writerResetFails(binaryWriter)
    THEN Thrown("ownership", binaryWriter,
                referenceResolverReset(referenceResolver),
                classResolverReset(classResolver))
    ELSE writeFrame(writerReset(binaryWriter), data, serializer)

serializeInternal(data, serializer) ==
    IF writerResetFails(binaryWriter)
    THEN Thrown("ownership", binaryWriter, referenceResolver, classResolver)
    ELSE writeFrame(writerReset(binaryWriter), data, serializer)

\* serializeVolatile installing the marker although the call failed
serializeVolatile_ownsOnFailure(data, serializer) ==
    LET s == serializeInternal(data, serializer)
        d == dumpAndOwn(s.writer)
    IN  IF s.status # "ok" THEN [s EXCEPT !.writer = d.writer]
        ELSE [s EXCEPT !.writer = d.writer, !.result = d.result,
                       !.steps = Append(s.steps, "dumpAndOwn")]

serializeVolatile(data, serializer) ==
    LET s == serializeInternal(data, serializer)
    IN  IF s.status # "ok" THEN s
        ELSE LET d == dumpAndOwn(s.writer)
             IN  [s EXCEPT !.writer = d.writer, !.result = d.result,
                           !.steps = Append(s.steps, "dumpAndOwn")]

\* serialize extracting with dumpAndOwn instead of dump
serialize_dumpAndOwn(data, serializer) == serializeVolatile(data, serializer)

serialize(data, serializer) ==
    LET s == serializeInternal(data, serializer)
    IN  IF s.status # "ok" THEN s
        ELSE LET d == dump(s.writer)
             IN  [s EXCEPT !.writer = d.writer, !.result = d.result,
                           !.steps = Append(s.steps, "dump")]

\* the outcome of a read call that failed
Failed(status, r, refs, cls, readCalls, readStart) ==
    [status |-> status, returned |-> FALSE, value |-> NULL, reader |-> r,
     referenceResolver |-> refs, classResolver |-> cls,
     readCalls |-> readCalls, readStart |-> readStart,
     codecRefs |-> << >>, codecCls |-> {}]

\* readFrame without the out-of-band check
readFrame_noOutOfBandCheck(bitmap, r1, serializer, refs0, cls0) ==
    LET isLittleEndian ==
            BitAnd(bitmap, isLittleEndianFlag) = isLittleEndianFlag
        isCrossLanguage ==
            BitAnd(bitmap, isCrossLanguageFlag) = isCrossLanguageFlag
        isOutOfBandEnabled ==
            BitAnd(bitmap, isOutOfBandFlag) = isOutOfBandFlag
    IN  IF ~isLittleEndian THEN Failed("bigendian", r1, refs0, cls0, 0, 0)
        ELSE IF ~isCrossLanguage THEN Failed("crosslang", r1, refs0, cls0, 0, 0)
        ELSE LET l == readerUint8(r1)
                 r2 == l.reader
             IN  IF FALSE
                 THEN Failed("outofband", r2, refs0, cls0, 0, 0)
                 ELSE LET r3 == readerInt32(r2).reader
                          r4 == readerInt32(r3).reader
                          c == serializerRead(serializer, r4, refs0, cls0)
                      IN  IF c.status # "ok"
                          THEN [Failed("codec", c.reader, c.referenceResolver,
                                       c.classResolver, 1, r4.cursor)
                                   EXCEPT !.codecRefs = refs0,
                                          !.codecCls = cls0.transient]
                          ELSE [status |-> "ok", returned |-> TRUE,
                                value |-> c.value, reader |-> c.reader,
                                referenceResolver |-> c.referenceResolver,
                                classResolver |-> c.classResolver,
                                readCalls |-> 1, readStart |-> r4.cursor,
                                codecRefs |-> refs0,
                                codecCls |-> cls0.transient]

\* readFrame skipping one native-object field instead of two
readFrame_oneNativeField(bitmap, r1, serializer, refs0, cls0) ==
    LET isLittleEndian ==
            BitAnd(bitmap, isLittleEndianFlag) = isLittleEndianFlag
        isCrossLanguage ==
            BitAnd(bitmap, isCrossLanguageFlag) = isCrossLanguageFlag
        isOutOfBandEnabled ==
            BitAnd(bitmap, isOutOfBandFlag) = isOutOfBandFlag
    IN  IF ~isLittleEndian THEN Failed("bigendian", r1, refs0, cls0, 0, 0)
        ELSE IF ~isCrossLanguage THEN Failed("crosslang", r1, refs0, cls0, 0, 0)
        ELSE LET l == readerUint8(r1)
                 r2 == l.reader
             IN  IF isOutOfBandEnabled
                 THEN Failed("outofband", r2, refs0, cls0, 0, 0)
                 ELSE LET r3 == readerInt32(r2).reader
                          r4 == r3
                          c == serializerRead(serializer, r4, refs0, cls0)
                      IN  IF c.status # "ok"
                          THEN [Failed("codec", c.reader, c.referenceResolver,
                                       c.classResolver, 1, r4.cursor)
                                   EXCEPT !.codecRefs = refs0,
                                          !.codecCls = cls0.transient]
                          ELSE [status |-> "ok", returned |-> TRUE,
                                value |-> c.value, reader |-> c.reader,
                                referenceResolver |-> c.referenceResolver,
                                classResolver |-> c.classResolver,
                                readCalls |-> 1, readStart |-> r4.cursor,
                                codecRefs |-> refs0,
                                codecCls |-> cls0.transient]

\* readFrame checking the out-of-band flag before it skips the language tag
readFrame_outOfBandBeforeLanguage(bitmap, r1, serializer, refs0, cls0) ==
    LET isLittleEndian ==
            BitAnd(bitmap, isLittleEndianFlag) = isLittleEndianFlag
        isCrossLanguage ==
            BitAnd(bitmap, isCrossLanguageFlag) = isCrossLanguageFlag
        isOutOfBandEnabled ==
            BitAnd(bitmap, isOutOfBandFlag) = isOutOfBandFlag
    IN  IF ~isLittleEndian THEN Failed("bigendian", r1, refs0, cls0, 0, 0)
        ELSE IF ~isCrossLanguage THEN Failed("crosslang", r1, refs0, cls0, 0, 0)
        ELSE LET l == readerUint8(r1)
                 r2 == l.reader
             IN  IF isOutOfBandEnabled
                 THEN Failed("outofband", r1, refs0, cls0, 0, 0)
                 ELSE LET r3 == readerInt32(r2).reader
                          r4 == readerInt32(r3).reader
                          c == serializerRead(serializer, r4, refs0, cls0)
                      IN  IF c.status # "ok"
                          THEN [Failed("codec", c.reader, c.referenceResolver,
                                       c.classResolver, 1, r4.cursor)
                                   EXCEPT !.codecRefs = refs0,
                                          !.codecCls = cls0.transient]
                          ELSE [status |-> "ok", returned |-> TRUE,
                                value |-> c.value, reader |-> c.reader,
                                referenceResolver |-> c.referenceResolver,
                                classResolver |-> c.classResolver,
                                readCalls |-> 1, readStart |-> r4.cursor,
                                codecRefs |-> refs0,
                                codecCls |-> cls0.transient]

\* readFrame rejecting a language tag other than XLANG
readFrame_validatesLanguage(bitmap, r1, serializer, refs0, cls0) ==
    LET isLittleEndian ==
            BitAnd(bitmap, isLittleEndianFlag) = isLittleEndianFlag
        isCrossLanguage ==
            BitAnd(bitmap, isCrossLanguageFlag) = isCrossLanguageFlag
        isOutOfBandEnabled ==
            BitAnd(bitmap, isOutOfBandFlag) = isOutOfBandFlag
    IN  IF ~isLittleEndian THEN Failed("bigendian", r1, refs0, cls0, 0, 0)
        ELSE IF ~isCrossLanguage THEN Failed("crosslang", r1, refs0, cls0, 0, 0)
        ELSE LET l == readerUint8(r1)
                 r2 == l.reader
             IN  IF isOutOfBandEnabled \/ l.value # XLANG
                 THEN Failed("outofband", r2, refs0, cls0, 0, 0)
                 ELSE LET r3 == readerInt32(r2).reader
                          r4 == readerInt32(r3).reader
                          c == serializerRead(serializer, r4, refs0, cls0)
                      IN  IF c.status # "ok"
                          THEN [Failed("codec", c.reader, c.referenceResolver,
                                       c.classResolver, 1, r4.cursor)
                                   EXCEPT !.codecRefs = refs0,
                                          !.codecCls = cls0.transient]
                          ELSE [status |-> "ok", returned |-> TRUE,
                                value |-> c.value, reader |-> c.reader,
                                referenceResolver |-> c.referenceResolver,
                                classResolver |-> c.classResolver,
                                readCalls |-> 1, readStart |-> r4.cursor,
                                codecRefs |-> refs0,
                                codecCls |-> cls0.transient]

\* deserialize after the null check: header validation, the skipped fields,
\* the codec's read
readFrame(bitmap, r1, serializer, refs0, cls0) ==
    LET isLittleEndian ==
            BitAnd(bitmap, isLittleEndianFlag) = isLittleEndianFlag
        isCrossLanguage ==
            BitAnd(bitmap, isCrossLanguageFlag) = isCrossLanguageFlag
        isOutOfBandEnabled ==
            BitAnd(bitmap, isOutOfBandFlag) = isOutOfBandFlag
    IN  IF ~isLittleEndian THEN Failed("bigendian", r1, refs0, cls0, 0, 0)
        ELSE IF ~isCrossLanguage THEN Failed("crosslang", r1, refs0, cls0, 0, 0)
        ELSE LET l == readerUint8(r1)
                 r2 == l.reader
             IN  IF isOutOfBandEnabled
                 THEN Failed("outofband", r2, refs0, cls0, 0, 0)
                 ELSE LET r3 == readerInt32(r2).reader
                          r4 == readerInt32(r3).reader
                          c == serializerRead(serializer, r4, refs0, cls0)
                      IN  IF c.status # "ok"
                          THEN [Failed("codec", c.reader, c.referenceResolver,
                                       c.classResolver, 1, r4.cursor)
                                   EXCEPT !.codecRefs = refs0,
                                          !.codecCls = cls0.transient]
                          ELSE [status |-> "ok", returned |-> TRUE,
                                value |-> c.value, reader |-> c.reader,
                                referenceResolver |-> c.referenceResolver,
                                classResolver |-> c.classResolver,
                                readCalls |-> 1, readStart |-> r4.cursor,
                                codecRefs |-> refs0,
                                codecCls |-> cls0.transient]

\* deserialize without the null check
deserialize_noNullCheck(bytes, serializer) ==
    LET refs0 == referenceResolverReset(referenceResolver)
        cls0 == classResolverReset(classResolver)
        b == readerUint8(readerReset(bytes))
    IN  readFrame(b.value, b.reader, serializer, refs0, cls0)

\* the outcome of a read call that found the null bit
ReadNull(r, refs, cls) ==
    [status |-> "ok", returned |-> TRUE, value |-> NULL, reader |-> r,
     referenceResolver |-> refs, classResolver |-> cls,
     readCalls |-> 0, readStart |-> 0, codecRefs |-> << >>, codecCls |-> {}]

\* deserialize without the reset of the Reference Resolver
deserialize_noReferenceReset(bytes, serializer) ==
    LET refs0 == referenceResolver
        cls0 == classResolverReset(classResolver)
        b == readerUint8(readerReset(bytes))
    IN  IF BitAnd(b.value, isNullFlag) = isNullFlag
        THEN ReadNull(b.reader, refs0, cls0)
        ELSE readFrame(b.value, b.reader, serializer, refs0, cls0)

\* deserialize failing with an ownership violation while a view is outstanding
deserialize_checksOwnership(bytes, serializer) ==
    LET refs0 == referenceResolverReset(referenceResolver)
        cls0 == classResolverReset(classResolver)
        b == readerUint8(readerReset(bytes))
    IN  IF binaryWriter.locked
        THEN Failed("ownership", binaryReader, referenceResolver, classResolver, 0, 0)
        ELSE IF BitAnd(b.value, isNullFlag) = isNullFlag
        THEN ReadNull(b.reader, refs0, cls0)
        ELSE readFrame(b.value, b.reader, serializer, refs0, cls0)

deserialize(bytes, serializer) ==
    LET refs0 == referenceResolverReset(referenceResolver)
        cls0 == classResolverReset(classResolver)
        r0 == readerReset(bytes)
        b == readerUint8(r0)
        bitmap == b.value
    IN  IF BitAnd(bitmap, isNullFlag) = isNullFlag
        THEN ReadNull(b.reader, refs0, cls0)
        ELSE readFrame(bitmap, b.reader, serializer, refs0, cls0)

\* the type descriptions passed to registerSerializer
Descriptions == {"typed"}

\* generateSerializer(this, description): the codec compiled from the
\* description, whose type takes the next place in the Class Resolver's table
generateSerializer(description) ==
    [serializer |-> typedSerializer,
     classResolver |->
         [classResolver EXCEPT !.table = Append(classResolver.table, description)]]

registerSerializer(description) == generateSerializer(description)

\* the serialize closure writing without consulting the engine's writer marker
closureSerialize_ignoresOwnership(serializer, data) ==
    LET s == writeFrame(writerReset(binaryWriter), data, serializer)
    IN  IF s.status # "ok" THEN s
        ELSE [s EXCEPT !.result = dump(s.writer).result,
                       !.steps = Append(s.steps, "dump")]

\* the closures that registerSerializer returns
closureSerialize(serializer, data) == serialize(data, serializer)

closureSerializeVolatile(serializer, data) == serializeVolatile(data, serializer)

closureDeserialize(serializer, bytes) == deserialize(bytes, serializer)

----------------------------------------------------------------------------
(* The callers: what they pass in and what they hold. *)

WriteOps == {"serialize", "serializeVolatile"}

NoResult == [kind |-> "none", bytes |-> << >>, len |-> 0]

NoOrigin == [data |-> NULL, codec |-> "none", writeStart |-> 0]

Outcome(op, status, data, codec) ==
    [op |-> op, status |-> status, data |-> data, codec |-> codec,
     returned |-> FALSE, value |-> NULL, readCalls |-> 0, readStart |-> 0,
     writeStart |-> 0, outstandingBefore |-> Len(views), fromDumped |-> FALSE,
     writeCalls |-> 0, codecRefs |-> << >>, codecCls |-> {}, steps |-> << >>,
     via |-> 0,
     dirtyBefore |-> (referenceResolver # << >> \/ classResolver.transient # {})]

\* the native-object offset and count fields of crafted headers
NativeFields == { << 0, 0 >>, << 300, 1 >> }

\* the payloads of crafted inputs: what the codecs write, and a garbage byte
Payloads ==
    { << >>, << NullRefFlag >>, << 7 >> }
    \cup { << f, v >> : f \in {NotNullValueFlag, RefValueFlag}, v \in 1..MaxValue }
    \cup { << f, NumberTypeId, 1 >> : f \in {NotNullValueFlag, RefValueFlag} }

Header(bm, lang, nf) == << bm, lang >> \o LE32(nf[1]) \o LE32(nf[2])

\* crafted inputs: a lone bitmap byte with the null bit, or a complete
\* 10-byte header followed by a payload
CraftedInputs ==
    { << bm >> : bm \in { b \in 0..15 : b % 2 = 1 } }
    \cup { Header(bm, lang, nf) \o p :
             bm \in 0..15, lang \in 0..MaxLang, nf \in NativeFields, p \in Payloads }

\* the crafted inputs tried between the calls of a running engine: a lone
\* null byte, a well-formed frame and an out-of-band frame
FewInputs ==
    { << isNullFlag >>,
      Header(isLittleEndianFlag + isCrossLanguageFlag, XLANG, << 0, 0 >>)
          \o << NotNullValueFlag, MaxValue >>,
      Header(isLittleEndianFlag + isCrossLanguageFlag + isOutOfBandFlag, XLANG,
             << 0, 0 >>) \o << NullRefFlag >> }

Init ==
    /\ config \in { [refTracking |-> t] : t \in BOOLEAN }
    /\ binaryWriter = NewWriter
    /\ binaryReader = NewReader
    /\ referenceResolver = NewReferenceResolver
    /\ classResolver = NewClassResolver
    /\ closures = << >>
    /\ views = << >>
    /\ holders = << >>
    /\ dumped = NoResult
    /\ origin = NoOrigin
    /\ last = [Outcome("new", "ok", NULL, "none")
                  EXCEPT !.outstandingBefore = 0, !.dirtyBefore = FALSE]

\* the engine's state after a write call made through closure `via`
\* (0: the engine's own method)
WriteEffect(s, via) ==
    /\ binaryWriter' = s.writer
    /\ referenceResolver' = s.referenceResolver
    /\ classResolver' = s.classResolver
    /\ views' = IF s.result.kind = "view" THEN Append(views, s.result.len) ELSE views
    /\ holders' = IF s.result.kind = "view" THEN Append(holders, via) ELSE holders
    /\ UNCHANGED << config, binaryReader, closures >>

WriteOutcome(op, s, data, serializer, via) ==
    [Outcome(op, s.status, data, serializer.name)
        EXCEPT !.writeStart = s.writeStart,
               !.writeCalls = s.writeCalls,
               !.codecRefs = s.codecRefs,
               !.codecCls = s.codecCls,
               !.steps = s.steps,
               !.via = via]

SerializeBy(via, s, data, serializer) ==
    /\ WriteEffect(s, via)
    /\ dumped' = IF s.status = "ok" THEN s.result ELSE dumped
    /\ origin' = IF s.status = "ok"
                 THEN [data |-> data, codec |-> serializer.name,
                       writeStart |-> s.writeStart]
                 ELSE origin
    /\ last' = WriteOutcome("serialize", s, data, serializer, via)

SerializeVolatileBy(via, s, data, serializer) ==
    /\ WriteEffect(s, via)
    /\ UNCHANGED << dumped, origin >>
    /\ last' = WriteOutcome("serializeVolatile", s, data, serializer, via)

DeserializeBy(via, d, serializer, fromDumped) ==
    /\ binaryReader' = d.reader
    /\ referenceResolver' = d.referenceResolver
    /\ classResolver' = d.classResolver
    /\ last' = [Outcome("deserialize", d.status, NULL, serializer.name)
                   EXCEPT !.returned = d.returned, !.value = d.value,
                          !.readCalls = d.readCalls, !.readStart = d.readStart,
                          !.codecRefs = d.codecRefs, !.codecCls = d.codecCls,
                          !.fromDumped = fromDumped, !.via = via]
    /\ UNCHANGED << config, binaryWriter, closures, views, holders, dumped, origin >>

Serialize(data, serializer) ==
    \E s \in {serialize(data, serializer)} : SerializeBy(0, s, data, serializer)

SerializeVolatile(data, serializer) ==
    \E s \in {serializeVolatile(data, serializer)} :
        SerializeVolatileBy(0, s, data, serializer)

\* the caller invokes the disposer of the outstanding view i
Dispose(i) ==
    /\ binaryWriter' = dispose(binaryWriter)
    /\ views' = [j \in 1..(Len(views) - 1) |-> IF j < i THEN views[j] ELSE views[j + 1]]
    /\ holders' = [j \in 1..(Len(holders) - 1) |->
                      IF j < i THEN holders[j] ELSE holders[j + 1]]
    /\ last' = Outcome("dispose", "ok", NULL, "none")
    /\ UNCHANGED << config, binaryReader, referenceResolver, classResolver,
                    closures, dumped, origin >>

Deserialize(bytes, serializer, fromDumped) ==
    \E d \in {deserialize(bytes, serializer)} :
        DeserializeBy(0, d, serializer, fromDumped)

\* registerSerializer(description): the codec is compiled, its type is added
\* to the Class Resolver's table, and the closures bound to it are returned
RegisterSerializer(description) ==
    /\ Len(closures) < MaxRegistrations
    /\ \E g \in {registerSerializer(description)} :
          /\ closures' = Append(closures, g.serializer)
          /\ classResolver' = g.classResolver
          /\ last' = Outcome("registerSerializer", "ok", NULL, g.serializer.name)
    /\ UNCHANGED << config, binaryWriter, binaryReader, referenceResolver,
                    views, holders, dumped, origin >>

\* the closures returned by the i-th registerSerializer call
ClosureSerialize(i, data) ==
    \E s \in {closureSerialize(closures[i], data)} :
        SerializeBy(i, s, data, closures[i])

ClosureSerializeVolatile(i, data) ==
    \E s \in {closureSerializeVolatile(closures[i], data)} :
        SerializeVolatileBy(i, s, data, closures[i])

ClosureDeserialize(i, bytes, fromDumped) ==
    \E d \in {closureDeserialize(closures[i], bytes)} :
        DeserializeBy(i, d, closures[i], fromDumped)

Next ==
    \/ \E data \in Values, serializer \in Serializers : Serialize(data, serializer)
    \/ \E data \in Values, serializer \in Serializers :
           SerializeVolatile(data, serializer)
    \/ \E i \in 1..Len(views) : Dispose(i)
    \/ \E bytes \in FewInputs, serializer \in Serializers :
           Deserialize(bytes, serializer, FALSE)
    \/ \E serializer \in Serializers :
           /\ dumped.kind # "none"
           /\ Deserialize(Seen(dumped, binaryWriter.buf), serializer, TRUE)

Spec == Init /\ [][Next]_vars

\* deserialize applied to every crafted input, by an engine that has written
\* nothing, as its first call or right after a call on one of FewInputs
\* (deserialize resets all the state it reads)
NextRead ==
    /\ last.op = "new" \/ binaryReader.bytes \in FewInputs
    /\ \E bytes \in CraftedInputs, serializer \in Serializers :
           Deserialize(bytes, serializer, FALSE)

ReadSpec == Init /\ [][NextRead]_vars

\* the engine's own methods and the closures of registered serializers,
\* used side by side
NextRegistered ==
    \/ \E description \in Descriptions : RegisterSerializer(description)
    \/ \E i \in 1..Len(closures), data \in Values : ClosureSerialize(i, data)
    \/ \E i \in 1..Len(closures), data \in Values : ClosureSerializeVolatile(i, data)
    \/ \E i \in 1..Len(closures) :
           /\ dumped.kind # "none"
           /\ ClosureDeserialize(i, Seen(dumped, binaryWriter.buf), TRUE)
    \/ \E data \in Values, serializer \in Serializers : Serialize(data, serializer)
    \/ \E data \in Values, serializer \in Serializers :
           SerializeVolatile(data, serializer)
    \/ \E i \in 1..Len(views) : Dispose(i)

RegisteredSpec == Init /\ [][NextRegistered]_vars

\* object graphs through the object codec; a graph with a cycle is passed
\* only to an engine that tracks references
NextGraph ==
    \/ \E data \in GraphValues :
           /\ data = SelfReferential => config.refTracking
           /\ Serialize(data, objectSerializer)
    \/ \E data \in GraphValues :
           /\ data = SelfReferential => config.refTracking
           /\ SerializeVolatile(data, objectSerializer)
    \/ \E i \in 1..Len(views) : Dispose(i)
    \/ /\ dumped.kind # "none"
       /\ Deserialize(Seen(dumped, binaryWriter.buf), objectSerializer, TRUE)

GraphSpec == Init /\ [][NextGraph]_vars

----------------------------------------------------------------------------
(* Properties. *)

HasFlag(bitmap, flag) == BitAnd(bitmap, flag) = flag

\* the bytes returned by the last successful write call
LastOutput ==
    IF last.op = "serialize" THEN Seen(dumped, binaryWriter.buf)
    ELSE SubSeq(binaryWriter.buf, 1, views[Len(views)])

\* the status of a write call that the ownership check lets through
Written(data, codec) ==
    IF codec = "typed" /\ data = 1 THEN "codec" ELSE "ok"

ViewBytesStable ==
    [][\A i \in 1..Len(views) :
          SubSeq(binaryWriter'.buf, 1, views[i])
              = SubSeq(binaryWriter.buf, 1, views[i])]_vars

ViewBytesStableWitness ==
    /\ Len(views) = 1
    /\ last.outstandingBefore = 1
    /\ last.op = "deserialize"
    /\ last.status = "ok"
    /\ last.value # NULL

\* C4: serialize(null) returns exactly one byte, with the null bit set.
NullIsOneByte ==
    (last.op = "serialize" /\ last.status = "ok" /\ last.data = NULL) =>
        /\ Len(LastOutput) = 1
        /\ HasFlag(LastOutput[1], isNullFlag)

\* C5: deserialize of an input whose first byte has the null bit returns the
\* null sentinel after consuming one byte, without a failure and without
\* invoking the codec's read routine.
NullInputReturnsNull ==
    (last.op = "deserialize" /\ HasFlag(binaryReader.bytes[1], isNullFlag)) =>
        /\ last.status = "ok"
        /\ last.returned
        /\ last.value = NULL
        /\ binaryReader.cursor = 1
        /\ last.readCalls = 0

NullInputReturnsNullWitness ==
    /\ last.op = "deserialize"
    /\ binaryReader.bytes[1] = 15
    /\ Len(binaryReader.bytes) > 10
    /\ last.returned

\* C6: in the output of every successful write call the bitmap byte has the
\* little-endian and cross-language bits set, the out-of-band bit clear, and
\* the null bit set iff the value was the null sentinel.
HeaderBitmapFlags ==
    (last.op \in WriteOps /\ last.status = "ok") =>
        /\ HasFlag(LastOutput[1], isLittleEndianFlag)
        /\ HasFlag(LastOutput[1], isCrossLanguageFlag)
        /\ ~HasFlag(LastOutput[1], isOutOfBandFlag)
        /\ HasFlag(LastOutput[1], isNullFlag) <=> (last.data = NULL)

HeaderBitmapFlagsWitness ==
    /\ last.op = "serializeVolatile"
    /\ last.status = "ok"
    /\ last.data = NULL
    /\ Len(views) = 1

\* the three protocol violations
ProtocolViolations == {"bigendian", "crosslang", "outofband"}

\* C7: deserialize of an input whose bitmap has the null bit clear and the
\* little-endian bit clear, or the cross-language bit clear, or the
\* out-of-band bit set, fails with a protocol violation, returns nothing,
\* does not invoke the codec's read routine and reads no byte at offset 10
\* or later.
ProtocolRejection ==
    (/\ last.op = "deserialize"
     /\ ~HasFlag(binaryReader.bytes[1], isNullFlag)
     /\ \/ ~HasFlag(binaryReader.bytes[1], isLittleEndianFlag)
        \/ ~HasFlag(binaryReader.bytes[1], isCrossLanguageFlag)
        \/ HasFlag(binaryReader.bytes[1], isOutOfBandFlag)) =>
        /\ last.status \in ProtocolViolations
        /\ ~last.returned
        /\ last.readCalls = 0
        /\ binaryReader.cursor <= 10

ProtocolRejectionWitness ==
    /\ last.op = "deserialize"
    /\ binaryReader.bytes[1]
           = isLittleEndianFlag + isCrossLanguageFlag + isOutOfBandFlag
    /\ Len(binaryReader.bytes) > 10
    /\ last.status = "outofband"

\* C8: deserialize of the bytes returned by serialize(v, codec), with the
\* same codec, returns v; the header is accepted whatever codec reads, and
\* for a value other than null the codec's read starts at the offset at
\* which the codec's write started.
RoundTrip ==
    (last.op = "deserialize" /\ last.fromDumped) =>
        /\ last.status \notin ProtocolViolations
        /\ last.codec = origin.codec =>
              /\ last.status = "ok"
              /\ last.returned
              /\ last.value = origin.data
              /\ origin.data # NULL =>
                    /\ last.readCalls = 1
                    /\ last.readStart = origin.writeStart

RoundTripWitness ==
    /\ last.op = "deserialize"
    /\ last.fromDumped
    /\ last.codec = origin.codec
    /\ last.value = MaxValue
    /\ last.readStart = 10

\* C9: a successful serialize leaves no pending-release marker and no view,
\* the write call that follows it is not rejected for ownership, and no step
\* changes the bytes that serialize returned.
CopyLeavesWriterFree ==
    /\ []((last.op = "serialize" /\ last.status = "ok") =>
             (~binaryWriter.locked /\ views = << >>))
    /\ [][(last.op = "serialize" /\ last.status = "ok" /\ last'.op \in WriteOps) =>
             last'.status = Written(last'.data, last'.codec)]_vars
    /\ [][Seen(dumped, binaryWriter'.buf) = Seen(dumped, binaryWriter.buf)]_vars

CopyLeavesWriterFreeWitness ==
    /\ last.op = "serializeVolatile"
    /\ last.status = "ok"
    /\ dumped.kind = "copy"
    /\ dumped.bytes # SubSeq(binaryWriter.buf, 1, dumped.len)

\* C10: a write call rejected with an ownership violation leaves the writer
\* (marker, contents, cursor), the outstanding view and both resolvers as
\* they were, and a write call that follows a rejected one with no dispose
\* in between is rejected too.
RejectedCallChangesNothing ==
    /\ [][last'.status = "ownership" =>
             /\ binaryWriter' = binaryWriter
             /\ views' = views
             /\ referenceResolver' = referenceResolver
             /\ classResolver' = classResolver]_vars
    /\ [][(last.status = "ownership" /\ last'.op \in WriteOps) =>
             last'.status = "ownership"]_vars
    /\ [](last.status = "ownership" => binaryWriter.locked /\ Len(views) > 0)

RejectedCallChangesNothingWitness ==
    /\ last.status = "ownership"
    /\ referenceResolver # << >>
    /\ classResolver.transient # {}
    /\ binaryWriter.locked

----------------------------------------------------------------------------
(* Properties of the frame, of the resolvers and of failures. *)

SerializerNamed(name) == CHOOSE serializer \in Serializers : serializer.name = name

\* the bitmap of a frame that the read path validates and accepts
IsValidBitmap(bitmap) ==
    /\ ~HasFlag(bitmap, isNullFlag)
    /\ HasFlag(bitmap, isLittleEndianFlag)
    /\ HasFlag(bitmap, isCrossLanguageFlag)
    /\ ~HasFlag(bitmap, isOutOfBandFlag)

\* C11: in the output of every successful write call the 4 bytes at offset 2
\* hold, little-endian, the cursor after the codec's write, which is the
\* length of the output, and the 4 bytes at offset 6 are zero.
OffsetFieldPatched ==
    (last.op \in WriteOps /\ last.status = "ok") =>
        /\ Len(LastOutput) = binaryWriter.cursor
        /\ FromLE32(SubSeq(LastOutput, 3, 6)) = Len(LastOutput)
        /\ SubSeq(LastOutput, 7, 10) = << 0, 0, 0, 0 >>

OffsetFieldPatchedWitness ==
    /\ last.op = "serializeVolatile"
    /\ last.status = "ok"
    /\ Len(LastOutput) = 12
    /\ Len(binaryWriter.buf) = 13
    /\ SubSeq(LastOutput, 3, 6) = << 12, 0, 0, 0 >>

\* C12: whenever a write or read call invokes the codec, the Reference
\* Resolver is empty and the Class Resolver's transient state is reset at
\* that moment, whatever the earlier calls left in them.
ResolversFreshAtCodec ==
    (\/ last.op \in WriteOps /\ last.writeCalls = 1
     \/ last.op = "deserialize" /\ last.readCalls = 1) =>
        /\ last.codecRefs = << >>
        /\ last.codecCls = {}

ResolversFreshAtCodecWitness ==
    /\ last.op = "deserialize"
    /\ last.readCalls = 1
    /\ last.status = "codec"
    /\ last.dirtyBefore
    /\ last.codecRefs = << >>

\* C15: with the null bit clear, a bitmap without the little-endian bit
\* fails as big-endian after 1 byte; otherwise one without the
\* cross-language bit fails as cross-language-only after 1 byte; otherwise
\* one with the out-of-band bit fails as out-of-band after 2 bytes.
HeaderValidationOrder ==
    (last.op = "deserialize" /\ ~HasFlag(binaryReader.bytes[1], isNullFlag)) =>
        IF ~HasFlag(binaryReader.bytes[1], isLittleEndianFlag)
        THEN last.status = "bigendian" /\ binaryReader.cursor = 1
        ELSE IF ~HasFlag(binaryReader.bytes[1], isCrossLanguageFlag)
        THEN last.status = "crosslang" /\ binaryReader.cursor = 1
        ELSE IF HasFlag(binaryReader.bytes[1], isOutOfBandFlag)
        THEN last.status = "outofband" /\ binaryReader.cursor = 2
        ELSE TRUE

HeaderValidationOrderWitness ==
    /\ last.op = "deserialize"
    /\ binaryReader.bytes[1] = isLittleEndianFlag + isOutOfBandFlag
    /\ last.status = "crosslang"
    /\ binaryReader.cursor = 1

\* C16: for a bitmap with the null bit clear, little-endian and
\* cross-language set and out-of-band clear, deserialize invokes the codec's
\* read once, at offset 10, and its outcome is the codec's outcome, whatever
\* the language tag and the two native-object fields hold.
ValidHeaderReadsCodecOnce ==
    (last.op = "deserialize" /\ IsValidBitmap(binaryReader.bytes[1])) =>
        LET c == serializerRead(SerializerNamed(last.codec),
                                [bytes |-> binaryReader.bytes, cursor |-> 10],
                                NewReferenceResolver, NewClassResolver)
        IN  /\ last.readCalls = 1
            /\ last.readStart = 10
            /\ last.status = (IF c.status = "ok" THEN "ok" ELSE "codec")
            /\ last.returned = (c.status = "ok")
            /\ last.value = c.value
            /\ binaryReader = c.reader

ValidHeaderReadsCodecOnceWitness ==
    /\ last.op = "deserialize"
    /\ IsValidBitmap(binaryReader.bytes[1])
    /\ binaryReader.bytes[2] = MaxLang
    /\ SubSeq(binaryReader.bytes, 3, 10) = LE32(300) \o LE32(1)
    /\ last.returned
    /\ last.value = MaxValue

\* the steps of a successful write call, before the extraction
WriteSteps ==
    << "binaryWriter.reset", "referenceResolver.reset", "classResolver.reset",
       "uint8(bitmap)", "uint8(language)", "getCursor", "skip(4)", "uint32(0)",
       "reserve", "serializer.write", "setUint32Position" >>

\* C17: a successful write call runs, once each and in this order: the
\* writer reset, the resolver resets, the 10 header bytes (bitmap, language
\* tag, placeholder, zero count), the reservation of the codec's fixed size
\* (made at cursor 10), one codec write starting at cursor 10, the patch of
\* the placeholder, the extraction.
WritePathOrdered ==
    /\ []((last.op \in WriteOps /\ last.status = "ok") =>
            /\ last.steps = Append(WriteSteps, IF last.op = "serialize"
                                               THEN "dump" ELSE "dumpAndOwn")
            /\ last.outstandingBefore = 0
            /\ last.codecRefs = << >> /\ last.codecCls = {}
            /\ last.writeCalls = 1
            /\ last.writeStart = 10
            /\ LastOutput[2] = XLANG
            /\ SubSeq(LastOutput, 3, 10) = LE32(Len(LastOutput)) \o LE32(0))
    /\ [][(last'.op \in WriteOps /\ last'.status = "ok") =>
            binaryWriter'.reserved =
                Max(binaryWriter.reserved,
                    10 + SerializerNamed(last'.codec).meta.fixedSize)]_vars

WritePathOrderedWitness ==
    /\ last.op = "serialize"
    /\ last.status = "ok"
    /\ last.codec = "typed"
    /\ binaryWriter.reserved = 12
    /\ Len(last.steps) = 12

\* C18: a write call whose codec fails reports the failure, installs no
\* marker and returns neither bytes nor a view, and the write call that
\* follows it is not rejected for ownership.
CodecFailureLeavesWriterFree ==
    /\ []((last.op \in WriteOps /\ last.status = "codec") =>
            (~binaryWriter.locked /\ views = << >> /\ last.writeCalls = 1))
    /\ [][(last'.op \in WriteOps /\ last'.status = "codec") =>
            (views' = views /\ dumped' = dumped)]_vars
    /\ [][(last.op \in WriteOps /\ last.status = "codec" /\ last'.op \in WriteOps) =>
            last'.status = Written(last'.data, last'.codec)]_vars

CodecFailureLeavesWriterFreeWitness ==
    /\ last.op = "serializeVolatile"
    /\ last.status = "codec"
    /\ last.data = 1
    /\ ~binaryWriter.locked

\* C19: deserialize never fails with an ownership violation, its outcome is
\* decided by the input bytes and the codec alone, also while a view is
\* outstanding, and it leaves the writer (marker and contents) and the
\* outstanding views as they were.
DeserializeIgnoresOwnership ==
    /\ [](last.op = "deserialize" =>
            LET b == readerUint8(readerReset(binaryReader.bytes))
                d == IF HasFlag(b.value, isNullFlag)
                     THEN ReadNull(b.reader, NewReferenceResolver, NewClassResolver)
                     ELSE readFrame(b.value, b.reader, SerializerNamed(last.codec),
                                    NewReferenceResolver, NewClassResolver)
            IN  /\ last.status # "ownership"
                /\ last.status = d.status
                /\ last.returned = d.returned
                /\ last.value = d.value
                /\ binaryReader = d.reader)
    /\ [][last'.op = "deserialize" =>
            (binaryWriter' = binaryWriter /\ views' = views)]_vars

DeserializeIgnoresOwnershipWitness ==
    /\ last.op = "deserialize"
    /\ last.outstandingBefore = 1
    /\ binaryWriter.locked
    /\ last.status = "outofband"

Payload == SubSeq(LastOutput, origin.writeStart + 1, Len(LastOutput))

\* C13: with reference tracking, an object whose two fields hold the same
\* instance is written as the object, one full encoding of the instance
\* (index 1, the root having index 0) and one back-reference with index 1,
\* and its decoding has two fields that are the same decoded instance; two
\* fields holding equal but distinct instances decode to distinct instances.
SharedReferenceDedup ==
    /\ (last.op = "serialize" /\ last.status = "ok" /\ config.refTracking
           /\ last.data = SharedFields) =>
          Payload = << RefValueFlag, 2, RefValueFlag, 0, RefFlag, 1 >>
    /\ (last.op = "deserialize" /\ last.fromDumped /\ config.refTracking
           /\ origin.data \in {SharedFields, DistinctFields}) =>
          /\ last.status = "ok"
          /\ Len(last.value[1]) = 2
          /\ origin.data = SharedFields =>
                /\ last.value[1][1] = last.value[1][2]
                /\ last.value = << << 1, 1 >>, << >> >>
          /\ origin.data = DistinctFields =>
                /\ last.value[1][1] # last.value[1][2]
                /\ last.value = << << 1, 2 >>, << >>, << >> >>

SharedReferenceDedupWitness ==
    /\ config.refTracking
    /\ last.op = "deserialize"
    /\ last.fromDumped
    /\ origin.data = SharedFields
    /\ last.status = "ok"
    /\ SubSeq(dumped.bytes, origin.writeStart + 1, Len(dumped.bytes))
           = << RefValueFlag, 2, RefValueFlag, 0, RefFlag, 1 >>
    /\ last.value[1][1] = last.value[1][2]

\* C14: with reference tracking, serialize and deserialize of an object
\* whose field holds the object itself both complete, and in the decoded
\* graph that field is the decoded root (instance 0), which the codec
\* registered before decoding its fields.
CycleSafety ==
    /\ (last.op \in WriteOps /\ last.data = SelfReferential
           /\ last.outstandingBefore = 0) =>
          last.status = "ok"
    /\ (last.op = "serialize" /\ last.status = "ok"
           /\ last.data = SelfReferential) =>
          Payload = << RefValueFlag, 2, RefFlag, 0, RefValueFlag, 0 >>
    /\ (last.op = "deserialize" /\ last.fromDumped
           /\ origin.data = SelfReferential) =>
          /\ last.status = "ok"
          /\ last.value[1][1] = 0
          /\ last.value = << << 0, 1 >>, << >> >>

CycleSafetyWitness ==
    /\ config.refTracking
    /\ last.op = "deserialize"
    /\ last.fromDumped
    /\ origin.data = SelfReferential
    /\ last.value = << << 0, 1 >>, << >> >>

====
